---- MODULE Spec2Model ----
(***************************************************************************)
(* Model of the hook resolution pipeline of pre-commit-rs:                 *)
(*   - Hook::update / Hook::fill              (src/src/hook.rs)            *)
(*   - Repo::remote / Repo::local / get_hook  (src/src/hook.rs)            *)
(*   - Project::hooks                         (src/src/hook.rs)            *)
(*   - DockerImage::run                       (src/src/languages/          *)
(*                                             docker_image.rs)            *)
(*   - the runner binary's main               (src/src/runner/main.rs)     *)
(* Option<T> is modelled as a sequence: <<>> is None, <<v>> is Some(v).    *)
(***************************************************************************)
EXTENDS Integers, Sequences, FiniteSets, TLC

VARIABLES
    \* Hook::update / Hook::fill on one hook
    mBase, mOverride, mConfig, mHook, mFilled, mPc,
    \* Repo construction and lookup
    rKind, rUrl, rManifest, rRepo, rLookup, rPc,
    \* Project::hooks
    hConfig, hTasks, hReady, hHooks, hOrigin, hHookTasks, hResult, hPc,
    \* Project::hooks, history: the entries in the order their preparation
    \* completed, and in the order the loop body ran on them
    hCompleted, hTaken,
    \* DockerImage::run
    dHook, dBatches, dCmds, dLaunched, dOutputs, dOrder, dResults, dResult, dPc,
    \* DockerImage::run, history: the batches whose process could not be
    \* launched
    dFailed,
    \* the runner binary's main
    nCmd, nPreCommit, nLaunched, nPc

mergeVars == <<mBase, mOverride, mConfig, mHook, mFilled, mPc>>
repoVars == <<rKind, rUrl, rManifest, rRepo, rLookup, rPc>>
hooksVars ==
    <<hConfig, hTasks, hReady, hHooks, hOrigin, hHookTasks, hResult, hPc,
      hCompleted, hTaken>>
runVars ==
    <<dHook, dBatches, dCmds, dLaunched, dOutputs, dOrder, dResults, dResult, dPc,
      dFailed>>
runnerVars == <<nCmd, nPreCommit, nLaunched, nPc>>
vars == <<mergeVars, repoVars, hooksVars, runVars, runnerVars>>

----------------------------------------------------------------------------
\* Option<T>

None == <<>>

Some(v) == <<v>>

is_some(o) == o # None

is_none(o) == o = None

unwrap(o) == o[1]

----------------------------------------------------------------------------
\* Bounds

\* at most this many field choices in one merge: optional fields the
\* manifest hook leaves unset plus fields the project override sets
MaxFieldsChosen == 3

\* at most this many hook definitions in one manifest / inline hook list
MaxDefs == 3

\* at most this many repo entries in the project configuration
MaxRepos == 2

\* at most this many hook entries under one repo entry
MaxHooksPerRepo == 2

\* at most this many hook entries in the whole project configuration
MaxHookEntries == 3

\* at most this many batches in one run
MaxBatches == 3

\* the largest exit code a batch's process returns
MaxExitCode == 2

\* the most arguments the runner binary is given
MaxArgs == 3

----------------------------------------------------------------------------
\* Data model: ManifestHook, ConfigRemoteHook, ConfigWire

Languages == {"python", "docker_image"}

DEFAULT_VERSION == "default"

default_version(language) == DEFAULT_VERSION

\* the Option fields of ManifestHook
OptionalFields ==
    {"alias", "language_version", "files", "exclude", "types", "types_or",
     "exclude_types", "args", "stages", "additional_dependencies",
     "always_run", "verbose", "log_file"}

\* the Option fields of ConfigRemoteHook (everything but the id)
OverridableFields == OptionalFields \cup {"name"}

\* the value a manifest gives a field it sets
ManifestValue(f) ==
    CASE f = "name" -> "manifest-name"
      [] f = "alias" -> "manifest-alias"
      [] f = "language_version" -> "3.8"
      [] f = "args" -> <<"--check">>
      [] f = "stages" -> <<"commit">>
      [] f = "additional_dependencies" -> <<"pkg==1">>
      [] f \in {"types", "types_or", "exclude_types"} -> <<"text">>
      [] f \in {"always_run", "verbose"} -> FALSE
      [] OTHER -> "manifest"

\* the value a project override gives a field it sets
OverrideValue(f) ==
    CASE f = "name" -> "override-name"
      [] f = "alias" -> "override-alias"
      [] f = "language_version" -> "3.9"
      [] f = "args" -> <<"--fix">>
      [] f = "stages" -> <<"push">>
      [] f = "additional_dependencies" -> <<"pkg==2">>
      [] f \in {"types", "types_or", "exclude_types"} -> <<"rust">>
      [] f \in {"always_run", "verbose"} -> TRUE
      [] OTHER -> "override"

\* ManifestHook with the optional fields in `unset` left None
ManifestHook(id, language, unset) ==
    [f \in OptionalFields |->
        IF f \in unset THEN None ELSE Some(ManifestValue(f))]
    @@ [id |-> id, name |-> ManifestValue("name"), entry |-> "entry",
        language |-> language]

\* ConfigRemoteHook that sets exactly the fields in `set`
ConfigRemoteHook(id, set) ==
    [f \in OverridableFields |->
        IF f \in set THEN Some(OverrideValue(f)) ELSE None]
    @@ [id |-> id]

\* ConfigWire: the project-wide defaults read by fill
ConfigWire(default_language_version, default_stages) ==
    [default_language_version |-> default_language_version,
     default_stages |-> default_stages]

\* the project defaults the model draws from
ProjectDefaults ==
    {ConfigWire(dlv, ds) :
        dlv \in {None,
                 Some([l \in {} |-> "3.10"]),
                 Some([l \in {"python"} |-> "3.10"])},
        ds \in {None, Some(<<"manual">>)}}

\* the subsets of S with at most n elements
RECURSIVE SubsetsUpTo(_, _)
SubsetsUpTo(S, n) ==
    IF n = 0 \/ S = {} THEN {{}}
    ELSE LET x == CHOOSE y \in S : TRUE
         IN SubsetsUpTo(S \ {x}, n)
                \cup {T \cup {x} : T \in SubsetsUpTo(S \ {x}, n - 1)}

----------------------------------------------------------------------------
\* Hook::update

update(hook, repo_hook) ==
    [f \in DOMAIN hook |->
        CASE f = "alias" -> repo_hook.alias
          [] f = "name" ->
                IF is_some(repo_hook.name) THEN unwrap(repo_hook.name)
                ELSE hook.name
          [] f \in OptionalFields \ {"alias"} ->
                IF is_some(repo_hook[f]) THEN repo_hook[f] ELSE hook[f]
          [] OTHER -> hook[f]]

----------------------------------------------------------------------------
\* Hook::fill

\* config.default_language_version.as_ref().and_then(|v| v.get(&language).cloned())
default_language_version_for(config, language) ==
    IF is_none(config.default_language_version) THEN None
    ELSE IF language \in DOMAIN unwrap(config.default_language_version)
         THEN Some(unwrap(config.default_language_version)[language])
         ELSE None

\* variant: the project's default stages are appended to the hook's stages
fill_extend_stages(hook, config) ==
    LET lv1 == IF is_none(hook.language_version)
               THEN default_language_version_for(config, hook.language)
               ELSE hook.language_version
        lv2 == IF is_none(lv1) THEN Some(default_version(hook.language))
               ELSE lv1
        own == IF is_none(hook.stages) THEN <<>> ELSE unwrap(hook.stages)
        st  == IF is_none(config.default_stages) THEN hook.stages
               ELSE Some(own \o unwrap(config.default_stages))
    IN [hook EXCEPT !.language_version = lv2, !.stages = st]

\* variant: the project's defaults are taken before the hook's own values
fill_project_first(hook, config) ==
    LET dlv == default_language_version_for(config, hook.language)
        lv1 == IF is_some(dlv) THEN dlv ELSE hook.language_version
        lv2 == IF is_none(lv1) THEN Some(default_version(hook.language))
               ELSE lv1
        st  == IF is_some(config.default_stages) THEN config.default_stages
               ELSE hook.stages
    IN [hook EXCEPT !.language_version = lv2, !.stages = st]

fill(hook, config) ==
    LET lv1 == IF is_none(hook.language_version)
               THEN default_language_version_for(config, hook.language)
               ELSE hook.language_version
        lv2 == IF is_none(lv1) THEN Some(default_version(hook.language))
               ELSE lv1
        st  == IF is_none(hook.stages) THEN config.default_stages
               ELSE hook.stages
    IN [hook EXCEPT !.language_version = lv2, !.stages = st]

----------------------------------------------------------------------------
\* Specification of update and fill applied to one hook
\* (Project::hooks, remote arm: from, update, fill; then fill once more)

MergeIdle ==
    /\ mBase = None /\ mOverride = None /\ mConfig = None
    /\ mHook = None /\ mFilled = None /\ mPc = "idle"

RepoIdle ==
    /\ rKind = "none" /\ rUrl = "" /\ rManifest = None /\ rRepo = None
    /\ rLookup = None /\ rPc = "idle"

HooksIdle ==
    /\ hConfig = None /\ hTasks = <<>> /\ hReady = <<>> /\ hHooks = <<>>
    /\ hOrigin = <<>> /\ hHookTasks = <<>> /\ hResult = None
    /\ hCompleted = <<>> /\ hTaken = <<>>
    /\ hPc = "idle"

RunIdle ==
    /\ dHook = None /\ dBatches = <<>> /\ dCmds = None /\ dLaunched = <<>>
    /\ dOutputs = <<>> /\ dOrder = <<>> /\ dResults = <<>> /\ dResult = None
    /\ dFailed = {}
    /\ dPc = "idle"

RunnerIdle ==
    /\ nCmd = <<>> /\ nPreCommit = None /\ nLaunched = <<>> /\ nPc = "idle"

MergeInit ==
    /\ \E unset \in SubsetsUpTo(OptionalFields, MaxFieldsChosen) :
        \E set \in SubsetsUpTo(OverridableFields,
                                MaxFieldsChosen - Cardinality(unset)),
           language \in Languages,
           config \in ProjectDefaults :
            /\ mBase = ManifestHook("lint", language, unset)
            /\ mOverride = ConfigRemoteHook("lint", set)
            /\ mConfig = config
    /\ mHook = mBase
    /\ mFilled = None
    /\ mPc = "from"
    /\ RepoIdle /\ HooksIdle /\ RunIdle /\ RunnerIdle

\* hook.update(hook_config.clone())
UpdateStep ==
    /\ mPc = "from"
    /\ mHook' = update(mHook, mOverride)
    /\ mPc' = "updated"
    /\ UNCHANGED <<mBase, mOverride, mConfig, mFilled, repoVars, hooksVars, runVars, runnerVars>>

\* hook.fill(&self.config)
FillStep ==
    /\ mPc = "updated"
    /\ mHook' = fill(mHook, mConfig)
    /\ mFilled' = Some(mHook')
    /\ mPc' = "filled"
    /\ UNCHANGED <<mBase, mOverride, mConfig, repoVars, hooksVars, runVars, runnerVars>>

\* a second hook.fill(&self.config) on the filled hook
FillAgainStep ==
    /\ mPc = "filled"
    /\ mHook' = fill(mHook, mConfig)
    /\ mPc' = "refilled"
    /\ UNCHANGED <<mBase, mOverride, mConfig, mFilled, repoVars, hooksVars, runVars, runnerVars>>

MergeNext == UpdateStep \/ FillStep \/ FillAgainStep

SpecMerge == MergeInit /\ [][MergeNext]_vars

\* the value the overlay rule gives field f of B overlaid with O
OverlayField(B, O, f) ==
    IF f = "name"
    THEN (IF is_some(O.name) THEN unwrap(O.name) ELSE B.name)
    ELSE (IF is_some(O[f]) THEN O[f] ELSE B[f])

\* C1: after update(O) on base hook B, every overridable field equals O's
\* value if O sets it and B's value if O leaves it unset.
C1_UpdateIsOverlay ==
    mPc = "updated" =>
        \A f \in OverridableFields :
            mHook[f] = OverlayField(mBase, mOverride, f)

\* C2: applying fill a second time leaves the hook exactly as the first
\* fill left it, for every hook and every project configuration.
C2_FillIdempotent ==
    mPc = "refilled" => mHook = unwrap(mFilled)

\* a second fill has run on a hook whose language version and stages the
\* first fill had to take from the project's defaults
C2_Witness ==
    /\ mPc = "refilled"
    /\ is_none(mBase.stages) /\ is_none(mOverride.stages)
    /\ is_none(mBase.language_version)
    /\ is_none(mOverride.language_version)
    /\ is_some(mConfig.default_stages)
    /\ is_some(default_language_version_for(mConfig, mBase.language))

\* the language version the precedence rule gives
PrecedenceLanguageVersion(B, O, D) ==
    IF O.language_version # None THEN O.language_version
    ELSE IF B.language_version # None THEN B.language_version
    ELSE IF /\ D.default_language_version # None
            /\ B.language \in DOMAIN D.default_language_version[1]
    THEN <<D.default_language_version[1][B.language]>>
    ELSE <<DEFAULT_VERSION>>

\* the stages the precedence rule gives
PrecedenceStages(B, O, D) ==
    IF O.stages # None THEN O.stages
    ELSE IF B.stages # None THEN B.stages
    ELSE D.default_stages

\* C3: the effective hook of a remote repo takes language_version from
\* the override, else the manifest, else the project's default for the
\* hook's language, else the built-in default (never unset); stages from
\* the override, else the manifest, else the project's default stages; an
\* override that sets only args keeps the manifest's stages.
C3_Precedence ==
    mPc = "filled" =>
        /\ mHook.language_version
              = PrecedenceLanguageVersion(mBase, mOverride, mConfig)
        /\ mHook.language_version # None
        /\ mHook.stages = PrecedenceStages(mBase, mOverride, mConfig)
        /\ ( /\ mOverride.args # None
             /\ \A f \in OverridableFields \ {"args"} : mOverride[f] = None
             /\ mBase.stages # None
             => /\ mHook.stages = mBase.stages
                /\ mHook.args = mOverride.args )

\* the manifest declares stages [commit], the override sets only args,
\* the project has its own default stages, and the hook has been filled
C3_Witness ==
    /\ mPc = "filled"
    /\ mBase.stages = Some(<<"commit">>)
    /\ mOverride.args = Some(<<"--fix">>)
    /\ \A f \in OverridableFields \ {"args"} : mOverride[f] = None
    /\ is_some(mConfig.default_stages)
    /\ mHook.args = Some(<<"--fix">>)

----------------------------------------------------------------------------
\* Result<T>

Ok(v) == [ok |-> TRUE, value |-> v, error |-> None]

Err(e) == [ok |-> FALSE, value |-> None, error |-> Some(e)]

----------------------------------------------------------------------------
\* Repo

Urls == {"https://h/r", "https://h", "not a url"}

\* Url::parse: fails on a malformed url, gives a special-scheme url without
\* a path the path "/"
url_parse(url) ==
    CASE url = "not a url" -> None
      [] url = "https://h" -> Some("https://h/")
      [] OTHER -> Some(url)

\* variant: the first definition with an id is kept
RECURSIVE collect_hooks_first_wins(_)
collect_hooks_first_wins(hooks) ==
    IF hooks = <<>> THEN <<>>
    ELSE LET rest == collect_hooks_first_wins(Tail(hooks))
             first == Head(hooks)
         IN [id \in DOMAIN rest \cup {first.id} |->
                IF id = first.id THEN first ELSE rest[id]]

\* hooks.into_iter().map(|hook| (hook.id.clone(), hook)).collect():
\* the pairs are inserted in list order, an insert replaces an equal key
RECURSIVE collect_hooks(_)
collect_hooks(hooks) ==
    IF hooks = <<>> THEN <<>>
    ELSE LET n == Len(hooks)
             rest == collect_hooks(SubSeq(hooks, 1, n - 1))
             last == hooks[n]
         IN [id \in DOMAIN rest \cup {last.id} |->
                IF id = last.id THEN last ELSE rest[id]]

\* Repo::remote; manifest is None when read_manifest fails
remote(url, rev, manifest) ==
    IF is_none(url_parse(url)) THEN Err([kind |-> "InvalidUrl"])
    ELSE IF is_none(manifest) THEN Err([kind |-> "ReadManifest"])
    ELSE Ok([kind |-> "Remote", url |-> unwrap(url_parse(url)), rev |-> rev,
             hooks |-> collect_hooks(unwrap(manifest))])

\* Repo::local
local(hooks) ==
    Ok([kind |-> "Local", url |-> "", rev |-> "",
        hooks |-> collect_hooks(hooks)])

\* the Repo::Meta variant
Meta == [kind |-> "Meta", url |-> "", rev |-> "", hooks |-> <<>>]

\* a call that ends in a panic (todo!(), unwrap() on None, expect() on Err)
\* returns nothing to its caller
Panicked == [ok |-> FALSE, value |-> None, error |-> Some([kind |-> "Panic"])]

\* Repo::meta: the body is todo!()
meta == Panicked

\* Repo::get_hook
get_hook(repo, id) ==
    CASE repo.kind = "Remote" ->
            IF id \in DOMAIN repo.hooks THEN Some(repo.hooks[id]) ELSE None
      [] repo.kind = "Local" ->
            IF id \in DOMAIN repo.hooks THEN Some(repo.hooks[id]) ELSE None
      [] repo.kind = "Meta" -> None

\* variant: the revision is rendered before the url
to_string_rev_first(repo) ==
    CASE repo.kind = "Remote" -> <<repo.rev, "@", repo.url>>
      [] repo.kind = "Local" -> <<"local">>
      [] repo.kind = "Meta" -> <<"meta">>

\* impl Display for Repo; the rendered text is the sequence of its pieces
to_string(repo) ==
    CASE repo.kind = "Remote" -> <<repo.url, "@", repo.rev>>
      [] repo.kind = "Local" -> <<"local">>
      [] repo.kind = "Meta" -> <<"meta">>

----------------------------------------------------------------------------
\* Specification of Repo construction and lookup

\* the identifiers looked up
HookIds == {"lint", "fmt", "missing"}

\* the hook definitions a manifest or an inline hook list is made of: two
\* identifiers, each in two variants that differ in args
HookDefs ==
    {ManifestHook(id, "python", unset) :
        id \in {"lint", "fmt"}, unset \in {{}, {"args"}}}

SeqsUpTo(S, n) == UNION {[1..k -> S] : k \in 0..n}

RepoInit ==
    /\ \/ /\ rKind = "remote"
          /\ rUrl \in Urls
          /\ rManifest \in {None} \cup {Some(d) : d \in SeqsUpTo(HookDefs, MaxDefs)}
       \/ /\ rKind = "local"
          /\ rUrl = ""
          /\ rManifest \in {Some(d) : d \in SeqsUpTo(HookDefs, MaxDefs)}
       \/ /\ rKind = "meta"
          /\ rUrl = ""
          /\ rManifest = None
    /\ rRepo = None
    /\ rLookup = None
    /\ rPc = "new"
    /\ MergeIdle /\ HooksIdle /\ RunIdle /\ RunnerIdle

\* Repo::remote(url, rev, path)
RepoRemote ==
    /\ rPc = "new" /\ rKind = "remote"
    /\ rRepo' = Some(remote(rUrl, "v1", rManifest))
    /\ rPc' = IF unwrap(rRepo').ok THEN "built" ELSE "failed"
    /\ UNCHANGED <<rKind, rUrl, rManifest, rLookup, mergeVars, hooksVars, runVars, runnerVars>>

\* Repo::local(hooks, path)
RepoLocal ==
    /\ rPc = "new" /\ rKind = "local"
    /\ rRepo' = Some(local(unwrap(rManifest)))
    /\ rPc' = "built"
    /\ UNCHANGED <<rKind, rUrl, rManifest, rLookup, mergeVars, hooksVars, runVars, runnerVars>>

\* Repo::meta()
RepoMeta ==
    /\ rPc = "new" /\ rKind = "meta"
    /\ rRepo' = Some(meta)
    /\ rPc' = IF unwrap(rRepo').ok THEN "built" ELSE "panicked"
    /\ UNCHANGED <<rKind, rUrl, rManifest, rLookup, mergeVars, hooksVars, runVars, runnerVars>>

\* repo.get_hook(id)
GetHook(id) ==
    /\ rPc \in {"built", "looked"}
    /\ rLookup' = Some(<<id, get_hook(unwrap(rRepo).value, id)>>)
    /\ rPc' = "looked"
    /\ UNCHANGED <<rKind, rUrl, rManifest, rRepo, mergeVars, hooksVars, runVars, runnerVars>>

RepoNext ==
    \/ RepoRemote
    \/ RepoLocal
    \/ RepoMeta
    \/ \E id \in HookIds : GetHook(id)

SpecRepo == RepoInit /\ [][RepoNext]_vars

\* the positions of the definitions that carry an id used by an earlier one
DuplicatePositions(defs) ==
    {i \in 1..Len(defs) : \E j \in 1..(i - 1) : defs[j].id = defs[i].id}

\* the last definition listed with the id, if any
LastDefinition(defs, id) ==
    IF \E i \in 1..Len(defs) : defs[i].id = id
    THEN <<defs[CHOOSE i \in 1..Len(defs) :
                /\ defs[i].id = id
                /\ \A j \in (i + 1)..Len(defs) : defs[j].id # id]>>
    ELSE <<>>

\* C4: a repo built from N definitions of which M repeat an earlier id has
\* a map of exactly N - M entries; get_hook returns the last definition
\* listed with an id that occurs and None for an id that does not; the map
\* is the same after any number of lookups.
C4_HookMap ==
    rPc \in {"built", "looked"} =>
        LET defs == rManifest[1]
            map == rRepo[1].value.hooks
        IN /\ Cardinality(DOMAIN map)
                = Len(defs) - Cardinality(DuplicatePositions(defs))
           /\ \A id \in HookIds :
                IF LastDefinition(defs, id) = <<>>
                THEN id \notin DOMAIN map
                ELSE id \in DOMAIN map /\ <<map[id]>> = LastDefinition(defs, id)
           /\ rPc = "looked" =>
                rLookup[1][2] = LastDefinition(defs, rLookup[1][1])

\* three definitions, the id lint listed twice with different args, and
\* lint has been looked up
C4_Witness ==
    /\ rPc = "looked"
    /\ Len(rManifest[1]) = 3
    /\ Cardinality(DuplicatePositions(rManifest[1])) = 1
    /\ rManifest[1][1].id = "lint" /\ rManifest[1][3].id = "lint"
    /\ rManifest[1][1] # rManifest[1][3]
    /\ rLookup[1][1] = "lint"
    /\ rLookup[1][2] # <<>>

\* C12: Repo::meta() returns the Meta variant, a repo with a fixed empty
\* hook set: get_hook on it returns None for every id and it renders as the
\* literal "meta".
C12_MetaRepo ==
    (rKind = "meta" /\ rPc # "new") =>
        /\ rRepo[1].ok
        /\ rRepo[1].value = Meta
        /\ \A id \in HookIds : get_hook(rRepo[1].value, id) = None
        /\ to_string(rRepo[1].value) = <<"meta">>

----------------------------------------------------------------------------
\* Project::hooks

\* Error::HookNotFound { hook, repo }
HookNotFound(hook, repo) == [kind |-> "HookNotFound", hook |-> hook, repo |-> repo]

\* the opaque error of a failed store.prepare_repo
PrepareFailed == [kind |-> "PrepareFailed", hook |-> "", repo |-> <<>>]

\* LanguageImpl::supports_dependency
supports_dependency(language) == language # "docker_image"

\* the manifest every remote repo of the model ships: lint without
\* additional dependencies, fmt (container image) with them
Manifest ==
    <<ManifestHook("lint", "python", {"additional_dependencies", "language_version"}),
      ManifestHook("fmt", "docker_image", {"stages"})>>

\* the hook entries a remote repo entry is made of
RemoteHookConfigs ==
    {ConfigRemoteHook("lint", {}),
     ConfigRemoteHook("lint", {"args", "additional_dependencies"}),
     ConfigRemoteHook("fmt", {}),
     ConfigRemoteHook("missing", {})}

\* the inline hook definitions a local repo entry is made of
LocalHookConfigs ==
    {ManifestHook("local-plain", "python", {"additional_dependencies", "stages"}),
     ManifestHook("local-deps", "python", {"language_version"})}

\* ConfigRepo::Remote / ConfigRepo::Local / ConfigRepo::Meta
ConfigRepo(kind, url, rev, hooks) ==
    [kind |-> kind, url |-> url, rev |-> rev, hooks |-> hooks]

\* the repo entries with at most n hook entries: remote and local entries
\* with at least one hook entry, and the meta entry
RepoEntries(n) ==
    {ConfigRepo("Remote", "https://h", "v1", hs) :
        hs \in SeqsUpTo(RemoteHookConfigs, n) \ {<<>>}}
    \cup {ConfigRepo("Local", "", "", hs) :
        hs \in SeqsUpTo(LocalHookConfigs, n) \ {<<>>}}
    \cup {ConfigRepo("Meta", "", "", <<>>)}

Min(a, b) == IF a <= b THEN a ELSE b

RECURSIVE SumLen(_)
SumLen(repos) ==
    IF repos = <<>> THEN 0 ELSE Len(Head(repos).hooks) + SumLen(Tail(repos))

\* the lists of at most n repo entries with at most budget hook entries
RECURSIVE RepoLists(_, _)
RepoLists(n, budget) ==
    IF n = 0 THEN {<<>>}
    ELSE {<<>>} \cup
         UNION {{<<e>> \o rest : rest \in RepoLists(n - 1, budget - Len(e.hooks))} :
                    e \in RepoEntries(Min(MaxHooksPerRepo, budget))}

\* the project configurations the model draws from
ProjectConfigs ==
    {[repos |-> repos,
      default_language_version |-> Some([l \in {"python"} |-> "3.10"]),
      default_stages |-> Some(<<"manual">>)] :
        repos \in RepoLists(MaxRepos, MaxHookEntries)}

\* store.prepare_repo(repo_config, None) when the store does not fail:
\* the Repo built for the entry
prepare_repo(repo_config) ==
    CASE repo_config.kind = "Remote" ->
            remote(repo_config.url, repo_config.rev, Some(Manifest))
      [] repo_config.kind = "Local" -> local(repo_config.hooks)
      [] repo_config.kind = "Meta" -> Ok(Meta)

\* the future store.prepare_repo(repo_config, Some(deps)) pushed on hook_tasks
HookTask(i, deps) == [repo |-> i, deps |-> deps, state |-> "queued"]

\* the locals of Project::hooks written while one repo entry is processed
Acc(error, hooks, hook_tasks) ==
    [error |-> error, hooks |-> hooks, hook_tasks |-> hook_tasks]

\* variant: a hook id missing from the manifest is skipped
RECURSIVE process_remote_skip_missing(_, _, _, _, _)
process_remote_skip_missing(repo, i, remote_hooks, config, acc) ==
    IF remote_hooks = <<>> THEN acc
    ELSE LET hook_config == Head(remote_hooks)
             manifest_hook == get_hook(repo, hook_config.id)
         IN IF is_none(manifest_hook)
            THEN process_remote_skip_missing(repo, i, Tail(remote_hooks), config, acc)
            ELSE LET hook == fill(update(unwrap(manifest_hook), hook_config), config)
                     hook_tasks ==
                        IF is_some(hook.additional_dependencies)
                        THEN Append(acc.hook_tasks,
                                    HookTask(i, hook.additional_dependencies))
                        ELSE acc.hook_tasks
                 IN process_remote_skip_missing(repo, i, Tail(remote_hooks), config,
                        Acc(None, Append(acc.hooks, hook), hook_tasks))

\* variant: the hook entries of a repo are processed from the last to the
\* first
RECURSIVE process_remote_last_first(_, _, _, _, _)
process_remote_last_first(repo, i, remote_hooks, config, acc) ==
    IF remote_hooks = <<>> THEN acc
    ELSE LET n == Len(remote_hooks)
             hook_config == remote_hooks[n]
             manifest_hook == get_hook(repo, hook_config.id)
         IN IF is_none(manifest_hook)
            THEN Acc(Some(HookNotFound(hook_config.id, to_string(repo))),
                     acc.hooks, acc.hook_tasks)
            ELSE LET hook == fill(update(unwrap(manifest_hook), hook_config), config)
                     hook_tasks ==
                        IF is_some(hook.additional_dependencies)
                        THEN Append(acc.hook_tasks,
                                    HookTask(i, hook.additional_dependencies))
                        ELSE acc.hook_tasks
                 IN process_remote_last_first(repo, i, SubSeq(remote_hooks, 1, n - 1),
                        config, Acc(None, Append(acc.hooks, hook), hook_tasks))

\* the ConfigRepo::Remote arm: for hook_config in remote_hooks { ... }
RECURSIVE process_remote(_, _, _, _, _)
process_remote(repo, i, remote_hooks, config, acc) ==
    IF remote_hooks = <<>> THEN acc
    ELSE LET hook_config == Head(remote_hooks)
             manifest_hook == get_hook(repo, hook_config.id)
         IN IF is_none(manifest_hook)
            THEN Acc(Some(HookNotFound(hook_config.id, to_string(repo))),
                     acc.hooks, acc.hook_tasks)
            ELSE LET hook == fill(update(unwrap(manifest_hook), hook_config), config)
                     hook_tasks ==
                        IF is_some(hook.additional_dependencies)
                        THEN Append(acc.hook_tasks,
                                    HookTask(i, hook.additional_dependencies))
                        ELSE acc.hook_tasks
                 IN process_remote(repo, i, Tail(remote_hooks), config,
                        Acc(None, Append(acc.hooks, hook), hook_tasks))

\* variant: no secondary preparation is requested for a local hook
RECURSIVE process_local_no_request(_, _, _, _)
process_local_no_request(i, local_hooks, config, acc) ==
    IF local_hooks = <<>> THEN acc
    ELSE LET hook == fill(Head(local_hooks), config)
         IN process_local_no_request(i, Tail(local_hooks), config,
                Acc(None, Append(acc.hooks, hook), acc.hook_tasks))

\* variant: an override without set fields is merged onto the inline
\* definition before fill, as for a remote hook
RECURSIVE process_local_update(_, _, _, _)
process_local_update(i, local_hooks, config, acc) ==
    IF local_hooks = <<>> THEN acc
    ELSE LET hook == fill(update(Head(local_hooks),
                                 ConfigRemoteHook(Head(local_hooks).id, {})),
                          config)
             hook_tasks ==
                IF is_some(hook.additional_dependencies)
                THEN Append(acc.hook_tasks,
                            HookTask(i, hook.additional_dependencies))
                ELSE acc.hook_tasks
         IN process_local_update(i, Tail(local_hooks), config,
                Acc(None, Append(acc.hooks, hook), hook_tasks))

\* the ConfigRepo::Local arm: for hook_config in local_hooks { ... }
RECURSIVE process_local(_, _, _, _)
process_local(i, local_hooks, config, acc) ==
    IF local_hooks = <<>> THEN acc
    ELSE LET hook == fill(Head(local_hooks), config)
             hook_tasks ==
                IF is_some(hook.additional_dependencies)
                THEN Append(acc.hook_tasks,
                            HookTask(i, hook.additional_dependencies))
                ELSE acc.hook_tasks
         IN process_local(i, Tail(local_hooks), config,
                Acc(None, Append(acc.hooks, hook), hook_tasks))

\* the body of the while loop for one prepared repo: match repo_config
process_repo(repo, i, repo_config, config, acc) ==
    CASE repo_config.kind = "Remote" ->
            process_remote(repo, i, repo_config.hooks, config, acc)
      [] repo_config.kind = "Local" ->
            process_local(i, repo_config.hooks, config, acc)
      [] repo_config.kind = "Meta" -> acc

\* variant: the futures are left as they are when Project::hooks returns
drop_tasks_keep(tasks) == tasks

\* a future that has not completed when Project::hooks returns is dropped
\* with the FuturesUnordered that owns it
drop_tasks(tasks) ==
    [k \in DOMAIN tasks |->
        IF tasks[k].state \in {"queued", "pending", "ready"}
        THEN [tasks[k] EXCEPT !.state = "dropped"]
        ELSE tasks[k]]

HooksInit ==
    /\ hConfig \in ProjectConfigs
    /\ hTasks = <<>>
    /\ hReady = <<>>
    /\ hHooks = <<>>
    /\ hOrigin = <<>>
    /\ hHookTasks = <<>>
    /\ hResult = None
    /\ hCompleted = <<>>
    /\ hTaken = <<>>
    /\ hPc = "start"
    /\ MergeIdle /\ RepoIdle /\ RunIdle /\ RunnerIdle

\* for repo_config in &self.config.repos { tasks.push(...) }
PushTasks ==
    /\ hPc = "start"
    /\ hTasks' = [i \in 1..Len(hConfig.repos) |->
                    [state |-> "pending", result |-> None]]
    /\ hPc' = "loop"
    /\ UNCHANGED <<hConfig, hReady, hHooks, hOrigin, hHookTasks, hResult,
                   hCompleted, hTaken, mergeVars, repoVars, runVars, runnerVars>>

\* store.prepare_repo(repo_config, None) completes while the loop awaits
\* tasks.next(): with the Repo of the entry, or with the store's failure
PrepareRepoDone(i) ==
    /\ hPc = "loop"
    /\ hTasks[i].state = "pending"
    /\ \E result \in {prepare_repo(hConfig.repos[i]), Err(PrepareFailed)} :
        hTasks' = [hTasks EXCEPT ![i] = [state |-> "ready", result |-> Some(result)]]
    /\ hReady' = Append(hReady, i)
    /\ hCompleted' = Append(hCompleted, i)
    /\ UNCHANGED <<hConfig, hHooks, hOrigin, hHookTasks, hResult, hPc, hTaken,
                   mergeVars, repoVars, runVars, runnerVars>>

\* variant: the completed preparation that comes first in the configuration
next_ready_config_order(ready) ==
    CHOOSE i \in {ready[k] : k \in DOMAIN ready} :
        \A k \in DOMAIN ready : i <= ready[k]

\* tasks.next(): of the completed preparations, the one that completed first
next_ready(ready) == Head(ready)

\* tasks.next().await yields the first completed preparation; the loop
\* body runs on it: repo?, then the match on repo_config
ProcessNext ==
    /\ hPc = "loop"
    /\ hReady # <<>>
    /\ LET i == next_ready(hReady)
           repo == unwrap(hTasks[i].result)
           taken == [hTasks EXCEPT ![i].state = "taken"]
       IN /\ hReady' = SelectSeq(hReady, LAMBDA r : r # i)
          /\ hTaken' = Append(hTaken, i)
          /\ IF ~repo.ok
             THEN /\ hResult' = Some(Err(unwrap(repo.error)))
                  /\ hPc' = "done"
                  /\ hTasks' = drop_tasks(taken)
                  /\ hHookTasks' = drop_tasks(hHookTasks)
                  /\ UNCHANGED <<hHooks, hOrigin>>
             ELSE LET acc == process_repo(repo.value, i, hConfig.repos[i], hConfig,
                                          Acc(None, hHooks, hHookTasks))
                  IN /\ hHooks' = acc.hooks
                     /\ hOrigin' = hOrigin \o [k \in 1..(Len(acc.hooks) - Len(hHooks)) |-> i]
                     /\ IF is_some(acc.error)
                        THEN /\ hResult' = Some(Err(unwrap(acc.error)))
                             /\ hPc' = "done"
                             /\ hTasks' = drop_tasks(taken)
                             /\ hHookTasks' = drop_tasks(acc.hook_tasks)
                        ELSE /\ hTasks' = taken
                             /\ hHookTasks' = acc.hook_tasks
                             /\ UNCHANGED <<hResult, hPc>>
    /\ UNCHANGED <<hConfig, hCompleted, mergeVars, repoVars, runVars, runnerVars>>

\* tasks.next().await yields None: every preparation has been processed
LoopEnd ==
    /\ hPc = "loop"
    /\ \A i \in DOMAIN hTasks : hTasks[i].state = "taken"
    /\ hPc' = "collect"
    /\ UNCHANGED <<hConfig, hTasks, hReady, hHooks, hOrigin, hHookTasks,
                   hResult, hCompleted, hTaken, mergeVars, repoVars, runVars, runnerVars>>

\* variant: a secondary preparation runs as soon as it is enqueued
HookTaskDone_eager(k) ==
    /\ hPc \in {"loop", "collect"}
    /\ hHookTasks[k].state = "queued"
    /\ \E outcome \in {"ok", "err"} :
        hHookTasks' = [hHookTasks EXCEPT ![k].state = outcome]
    /\ UNCHANGED <<hConfig, hTasks, hReady, hHooks, hOrigin, hResult, hPc,
                   hCompleted, hTaken, mergeVars, repoVars, runVars, runnerVars>>

\* a store.prepare_repo(repo_config, Some(deps)) of hook_tasks completes
\* while hook_tasks.collect() is awaited
HookTaskDone(k) ==
    /\ hPc = "collect"
    /\ hHookTasks[k].state = "queued"
    /\ \E outcome \in {"ok", "err"} :
        hHookTasks' = [hHookTasks EXCEPT ![k].state = outcome]
    /\ UNCHANGED <<hConfig, hTasks, hReady, hHooks, hOrigin, hResult, hPc,
                   hCompleted, hTaken, mergeVars, repoVars, runVars, runnerVars>>

\* hook_tasks.collect().await? propagates the failure of a secondary
\* preparation
CollectErr ==
    /\ hPc = "collect"
    /\ \E k \in DOMAIN hHookTasks : hHookTasks[k].state = "err"
    /\ hResult' = Some(Err(PrepareFailed))
    /\ hHookTasks' = drop_tasks(hHookTasks)
    /\ hPc' = "done"
    /\ UNCHANGED <<hConfig, hTasks, hReady, hHooks, hOrigin, hCompleted, hTaken,
                   mergeVars, repoVars, runVars, runnerVars>>

\* hook_tasks.collect().await? succeeded; Ok(hooks)
ReturnHooks ==
    /\ hPc = "collect"
    /\ \A k \in DOMAIN hHookTasks : hHookTasks[k].state = "ok"
    /\ hResult' = Some(Ok(hHooks))
    /\ hPc' = "done"
    /\ UNCHANGED <<hConfig, hTasks, hReady, hHooks, hOrigin, hHookTasks,
                   hCompleted, hTaken, mergeVars, repoVars, runVars, runnerVars>>

HooksNext ==
    \/ PushTasks
    \/ \E i \in DOMAIN hTasks : PrepareRepoDone(i)
    \/ ProcessNext
    \/ LoopEnd
    \/ \E k \in DOMAIN hHookTasks : HookTaskDone(k)
    \/ CollectErr
    \/ ReturnHooks

SpecHooks == HooksInit /\ [][HooksNext]_vars

\* the ids a remote entry lists that its manifest does not declare
AbsentPositions(repo_config) ==
    {j \in 1..Len(repo_config.hooks) :
        \A d \in 1..Len(Manifest) : Manifest[d].id # repo_config.hooks[j].id}

\* entry i is a remote entry whose preparation completed with a Repo
PreparedRemote(i) ==
    /\ hConfig.repos[i].kind = "Remote"
    /\ hTasks[i].result # <<>>
    /\ hTasks[i].result[1].ok

\* the rendering url@revision of the Repo prepared for entry i
Rendered(i) ==
    <<hTasks[i].result[1].value.url, "@", hTasks[i].result[1].value.rev>>

\* C5 as stated: whenever a prepared remote entry lists an id absent from
\* the repo's hook map, the assembly fails with HookNotFound carrying that
\* id and the repo rendered as url@revision.
C5_Original ==
    hPc = "done" =>
        \A i \in DOMAIN hTasks :
            PreparedRemote(i) =>
                \A j \in AbsentPositions(hConfig.repos[i]) :
                    hResult[1].error
                        = <<HookNotFound(hConfig.repos[i].hooks[j].id, Rendered(i))>>

\* the first listed id of entry i that the manifest does not declare
FirstAbsentId(i) ==
    hConfig.repos[i].hooks[
        CHOOSE j \in AbsentPositions(hConfig.repos[i]) :
            \A k \in AbsentPositions(hConfig.repos[i]) : j <= k].id

\* C5 (amended): whenever the assembly processes a prepared remote entry
\* and its lookup of a listed id finds nothing, it fails with HookNotFound
\* carrying exactly that id and the repo rendered as url@revision; and
\* HookNotFound is raised only in that situation.
C5_HookNotFound ==
    /\ \A i \in DOMAIN hTasks :
            ( /\ PreparedRemote(i)
              /\ hTasks[i].state = "taken"
              /\ AbsentPositions(hConfig.repos[i]) # {} )
            => ( /\ hPc = "done"
                 /\ hResult[1].error
                      = <<HookNotFound(FirstAbsentId(i), Rendered(i))>> )
    /\ ( ( /\ hResult # <<>>
           /\ ~hResult[1].ok
           /\ hResult[1].error[1].kind = "HookNotFound" )
         => \E i \in DOMAIN hTasks :
              /\ PreparedRemote(i)
              /\ hTasks[i].state = "taken"
              /\ AbsentPositions(hConfig.repos[i]) # {}
              /\ hResult[1].error[1].hook = FirstAbsentId(i)
              /\ hResult[1].error[1].repo = Rendered(i) )

\* the assembly failed with HookNotFound after hooks listed before the
\* missing id had already been merged
C5_Witness ==
    /\ hPc = "done"
    /\ ~hResult[1].ok
    /\ hResult[1].error[1].kind = "HookNotFound"
    /\ hResult[1].error[1].hook = "missing"
    /\ hResult[1].error[1].repo = <<"https://h/", "@", "v1">>
    /\ Len(hHooks) > 0

\* some primary preparation failed, some listed id is missing from its
\* manifest, or some secondary preparation failed
SomeFailure ==
    \/ \E i \in DOMAIN hTasks :
            hTasks[i].result # <<>> /\ ~hTasks[i].result[1].ok
    \/ \E i \in DOMAIN hTasks :
            /\ hConfig.repos[i].kind = "Remote"
            /\ AbsentPositions(hConfig.repos[i]) # {}
    \/ \E k \in DOMAIN hHookTasks : hHookTasks[k].state = "err"

\* C6: under every completion order, a failed primary preparation, a
\* missing hook id or a failed secondary preparation makes the call return
\* an error and no hooks; a hook list is returned only when every primary
\* and secondary preparation succeeded and every listed id was found.
C6_NoPartialList ==
    hPc = "done" =>
        /\ SomeFailure => (~hResult[1].ok /\ hResult[1].value = <<>>)
        /\ hResult[1].ok =>
            /\ \A i \in DOMAIN hTasks :
                    /\ hTasks[i].state = "taken"
                    /\ hTasks[i].result[1].ok
            /\ \A i \in DOMAIN hTasks :
                    hConfig.repos[i].kind = "Remote"
                        => AbsentPositions(hConfig.repos[i]) = {}
            /\ \A k \in DOMAIN hHookTasks : hHookTasks[k].state = "ok"
            /\ Len(hResult[1].value) = SumLen(hConfig.repos)

\* a secondary preparation failed after hooks had been accumulated, and
\* the call returned an error
C6_Witness ==
    /\ hPc = "done"
    /\ ~hResult[1].ok
    /\ Len(hHooks) >= 2
    /\ \E k \in DOMAIN hHookTasks : hHookTasks[k].state = "err"
    /\ \A i \in DOMAIN hTasks : hTasks[i].result[1].ok

\* the secondary requests the returned hooks call for: one per hook with
\* additional_dependencies set, for the hook's repo entry, with its deps
RECURSIVE RequestsFor(_, _)
RequestsFor(hooks, origin) ==
    IF hooks = <<>> THEN <<>>
    ELSE LET rest == RequestsFor(Tail(hooks), Tail(origin))
         IN IF Head(hooks).additional_dependencies # <<>>
            THEN <<[repo |-> Head(origin),
                    deps |-> Head(hooks).additional_dependencies,
                    state |-> "ok"]>> \o rest
            ELSE rest

\* C7: when Project::hooks returns successfully, every effective hook with
\* additional_dependencies set has exactly one completed, successful
\* prepare_repo request for its repo entry with exactly those
\* dependencies, and hooks without them have none.
C7_SecondaryPrepared ==
    (hPc = "done" /\ hResult[1].ok) =>
        hHookTasks = RequestsFor(hResult[1].value, hOrigin)

\* a successful return with a remote hook and a local hook that each
\* needed a secondary preparation, and a hook that needed none
C7_Witness ==
    /\ hPc = "done"
    /\ hResult[1].ok
    /\ Len(hHookTasks) = 2
    /\ Len(hHooks) = 3
    /\ \E a, b \in DOMAIN hHookTasks :
            /\ hConfig.repos[hHookTasks[a].repo].kind = "Remote"
            /\ hConfig.repos[hHookTasks[b].repo].kind = "Local"

\* C8: a hook that declares additional_dependencies under a toolchain
\* whose supports_dependency() is false makes the assembly fail with a
\* capability-mismatch error; its dependencies are neither ignored nor
\* provisioned.  Stated for assemblies in which nothing else fails, where
\* the capability mismatch is the only error there is to surface.
C8_CapabilityMismatch ==
    ( /\ hPc = "done"
      /\ ~SomeFailure
      /\ \E k \in DOMAIN hHooks :
            /\ ~supports_dependency(hHooks[k].language)
            /\ hHooks[k].additional_dependencies # <<>> )
    => ( /\ ~hResult[1].ok
         /\ hResult[1].error[1].kind = "CapabilityMismatch"
         /\ \A t \in DOMAIN hHookTasks : hHookTasks[t].state # "ok" )

\* C13 as stated: when the assembly aborts, no sibling preparation is
\* dropped or cancelled.
C13_Original ==
    (hPc = "done" /\ ~hResult[1].ok) =>
        /\ \A i \in DOMAIN hTasks : hTasks[i].state # "dropped"
        /\ \A k \in DOMAIN hHookTasks : hHookTasks[k].state # "dropped"

\* C13 (amended): when the assembly aborts, every primary preparation the
\* loop body has not run on and every secondary preparation that has not
\* completed is dropped with the collection that owns it; a primary
\* preparation still in flight never delivers a result, and every secondary
\* preparation is dropped unstarted when the abort happens in the primary
\* loop.
C13_SiblingsDropped ==
    (hPc = "done" /\ ~hResult[1].ok) =>
        /\ \A i \in DOMAIN hTasks :
            /\ hTasks[i].state \in {"taken", "dropped"}
            /\ hTasks[i].state = "taken"
                <=> \E t \in DOMAIN hTaken : hTaken[t] = i
        /\ \A k \in DOMAIN hHookTasks :
            /\ hHookTasks[k].state \in {"ok", "err", "dropped"}
            /\ (\E i \in DOMAIN hTasks : hTasks[i].state = "dropped")
                => hHookTasks[k].state = "dropped"

\* the assembly aborted on a missing hook id while another repo's primary
\* preparation was still in flight and a secondary preparation was enqueued:
\* both were dropped
C13_Witness ==
    /\ hPc = "done"
    /\ ~hResult[1].ok
    /\ hResult[1].error[1].kind = "HookNotFound"
    /\ \E i \in DOMAIN hTasks :
        hTasks[i].state = "dropped" /\ hTasks[i].result = <<>>
    /\ \E k \in DOMAIN hHookTasks : hHookTasks[k].state = "dropped"


\* C14: a preparation is requested for every repo entry (remote, local or
\* meta) before the loop body runs on any result, and the loop body runs on
\* the entries in the order their preparations completed: the entries
\* processed so far are a prefix of the completion order, whatever their
\* position in the configuration, and the hooks merged so far are theirs.
C14_CompletionOrder ==
    /\ hPc \notin {"idle", "start"} => Len(hTasks) = Len(hConfig.repos)
    /\ hTaken # <<>> => DOMAIN hTasks = 1..Len(hConfig.repos)
    /\ Len(hTaken) <= Len(hCompleted)
    /\ hTaken = SubSeq(hCompleted, 1, Len(hTaken))
    /\ \A k \in DOMAIN hOrigin : \E t \in DOMAIN hTaken : hTaken[t] = hOrigin[k]
    /\ \A t \in DOMAIN hTaken :
        (hTasks[hTaken[t]].result[1].ok /\ hPc # "done")
            => Cardinality({k \in DOMAIN hOrigin : hOrigin[k] = hTaken[t]})
                    = Len(hConfig.repos[hTaken[t]].hooks)

\* the second repo entry completed first and its two hooks were merged
\* while the first entry, a remote repo, was still preparing
C14_Witness ==
    /\ hPc = "loop"
    /\ Len(hConfig.repos) = 2
    /\ hConfig.repos[1].kind = "Remote"
    /\ hTasks[1].state = "pending"
    /\ hTaken = <<2>>
    /\ Len(hHooks) = 2
    /\ hOrigin = <<2, 2>>


\* the inline definition that hook k of the list was made from: the hook
\* entry of its repo entry at the hook's position within the entry's block
InlineDefinition(k) ==
    LET i == hOrigin[k]
        j == Cardinality({m \in 1..k : hOrigin[m] = i})
    IN hConfig.repos[i].hooks[j]

\* C15: a hook made from a local repo entry is its inline definition after
\* fill alone: every field other than an unset language_version or unset
\* stages equals the inline definition's, the two are filled from the
\* project defaults; and no local repo entry produces HookNotFound.
C15_LocalFillOnly ==
    /\ \A k \in DOMAIN hHooks :
        hConfig.repos[hOrigin[k]].kind = "Local" =>
            LET def == InlineDefinition(k)
                hook == hHooks[k]
            IN /\ DOMAIN hook = DOMAIN def
               /\ \A f \in DOMAIN def \ {"language_version", "stages"} :
                    hook[f] = def[f]
               /\ def.language_version # <<>>
                    => hook.language_version = def.language_version
               /\ def.language_version = <<>>
                    => hook.language_version
                        = <<hConfig.default_language_version[1][def.language]>>
               /\ def.stages # <<>> => hook.stages = def.stages
               /\ def.stages = <<>> => hook.stages = hConfig.default_stages
    /\ ( ( /\ hResult # <<>>
           /\ ~hResult[1].ok
           /\ hResult[1].error[1].kind = "HookNotFound" )
         => ( /\ hConfig.repos[hTaken[Len(hTaken)]].kind = "Remote"
              /\ hResult[1].error[1].repo # <<"local">> ) )
    /\ ( ( /\ hPc = "done"
           /\ \A i \in DOMAIN hTasks :
                /\ hConfig.repos[i].kind # "Remote"
                /\ hTasks[i].result # <<>>
                /\ hTasks[i].result[1].ok
           /\ \A t \in DOMAIN hHookTasks : hHookTasks[t].state # "err" )
         => hResult[1].ok )

\* a successful return whose list holds the two hooks of a local repo
\* entry, one with unset stages and one with unset language_version
C15_Witness ==
    /\ hPc = "done"
    /\ hResult[1].ok
    /\ \E i \in DOMAIN hConfig.repos :
        /\ hConfig.repos[i].kind = "Local"
        /\ Len(hConfig.repos[i].hooks) = 2
        /\ hConfig.repos[i].hooks[1].stages = <<>>
        /\ hConfig.repos[i].hooks[2].language_version = <<>>
        /\ \E k \in DOMAIN hHooks :
            /\ hOrigin[k] = i /\ hOrigin[k + 1] = i
            /\ hHooks[k].stages = <<<<"manual">>>>
            /\ hHooks[k + 1].language_version = <<"3.10">>
            /\ hHooks[k].alias = <<"manifest-alias">>


\* one block per repo entry of the sequence, in that order: the ids of the
\* entry's hook entries in declared order
RECURSIVE BlockIds(_)
BlockIds(entries) ==
    IF entries = <<>> THEN <<>>
    ELSE [j \in 1..Len(hConfig.repos[Head(entries)].hooks) |->
                hConfig.repos[Head(entries)].hooks[j].id]
            \o BlockIds(Tail(entries))

\* one block per repo entry of the sequence: the entry's index, once per
\* hook entry
RECURSIVE BlockOrigins(_)
BlockOrigins(entries) ==
    IF entries = <<>> THEN <<>>
    ELSE [j \in 1..Len(hConfig.repos[Head(entries)].hooks) |-> Head(entries)]
            \o BlockOrigins(Tail(entries))

\* C17: under every completion order, the list returned by a successful
\* Project::hooks is the concatenation of one block per repo entry, the
\* blocks in the order the preparations completed; a block holds one
\* effective hook per hook entry of its repo entry, in declared order and
\* never interleaved with another block; the length of the list is the
\* number of hook entries declared over all repo entries.
C17_BlocksInCompletionOrder ==
    (hPc = "done" /\ hResult[1].ok) =>
        LET list == hResult[1].value
        IN /\ [k \in DOMAIN list |-> list[k].id] = BlockIds(hCompleted)
           /\ hOrigin = BlockOrigins(hCompleted)
           /\ Len(list) = SumLen(hConfig.repos)
           /\ Len(hCompleted) = Len(hConfig.repos)
           /\ \A i \in DOMAIN hConfig.repos :
                Cardinality({t \in DOMAIN hCompleted : hCompleted[t] = i}) = 1
           /\ \A k \in DOMAIN list :
                /\ list[k].id = InlineDefinition(k).id
                /\ InlineDefinition(k).args # <<>>
                    => list[k].args = InlineDefinition(k).args

\* a successful return for two repo entries where the second entry, with
\* one hook, completed before the first, a remote entry with the hooks lint
\* and fmt: the list is the second entry's hook, then lint, then fmt
C17_Witness ==
    /\ hPc = "done"
    /\ hResult[1].ok
    /\ hCompleted = <<2, 1>>
    /\ hConfig.repos[1].kind = "Remote"
    /\ hOrigin = <<2, 1, 1>>
    /\ hHooks[2].id = "lint" /\ hHooks[3].id = "fmt"


\* Project::hooks returned an error from inside the primary loop: on a
\* failed primary preparation or on a missing hook id
AbortedInLoop ==
    /\ hPc = "done"
    /\ ~hResult[1].ok
    /\ \/ hResult[1].error[1].kind = "HookNotFound"
       \/ \E i \in DOMAIN hTasks :
            hTasks[i].result # <<>> /\ ~hTasks[i].result[1].ok

\* C18: no secondary preparation makes progress until every primary
\* preparation has completed and been processed: while the primary loop
\* runs every secondary request is only enqueued; one that has completed
\* did so after the loop ended; and when the assembly aborts in the primary
\* loop no secondary preparation was ever started.
C18_SecondaryAfterPrimary ==
    /\ hPc \in {"start", "loop"} =>
            \A k \in DOMAIN hHookTasks : hHookTasks[k].state = "queued"
    /\ (\E k \in DOMAIN hHookTasks : hHookTasks[k].state \in {"ok", "err"}) =>
            ( /\ Len(hTaken) = Len(hConfig.repos)
              /\ \A i \in DOMAIN hTasks :
                    hTasks[i].state = "taken" /\ hTasks[i].result[1].ok )
    /\ AbortedInLoop =>
            \A k \in DOMAIN hHookTasks : hHookTasks[k].state = "dropped"

\* the first repo entry was processed and enqueued a secondary preparation,
\* then the second entry's primary preparation failed: the assembly aborted
\* and the secondary preparation was dropped unstarted
C18_Witness ==
    /\ AbortedInLoop
    /\ hTaken = <<1, 2>>
    /\ ~hTasks[2].result[1].ok
    /\ Len(hHookTasks) >= 1
    /\ hHookTasks[1].repo = 1
    /\ hHookTasks[1].state = "dropped"


----------------------------------------------------------------------------
\* DockerImage::run

\* the entry strings of the model
Entries == {"ruff check", "ruff 'check"}

\* shlex::split: None when a quote is left open
shlex_split(entry) ==
    CASE entry = "ruff check" -> Some(<<"ruff", "check">>)
      [] entry = "ruff 'check" -> None

\* Docker::docker_run_cmd(): the container-invocation command
docker_run_cmd == <<"docker", "run">>

FileNames == <<"a.py", "b.py", "c.py", "d.py", "e.py", "f.py">>

\* the batches run_by_batch splits the filenames into: consecutive, here
\* one filename each
Batches(n) == [b \in 1..n |-> <<FileNames[b]>>]

\* the Output values the process of batch b can end with; status_code is
\* None when the process ended without an exit code
ProcessOutputs(b) ==
    {[status_code |-> code, stdout |-> out, stderr |-> err] :
        code \in {None} \cup {Some(c) : c \in 0..MaxExitCode},
        out \in {<<10 * b + 1>>},
        err \in {<<>>, <<10 * b + 2>>}}

\* i32 | i32 on non-negative operands
RECURSIVE BitOr(_, _)
BitOr(a, b) ==
    IF a = 0 /\ b = 0 THEN 0
    ELSE (IF a % 2 = 1 \/ b % 2 = 1 THEN 1 ELSE 0) + 2 * BitOr(a \div 2, b \div 2)

\* variant: a process that ended without an exit code counts as code 0
batch_result_no_code_is_zero(output) ==
    <<IF is_some(output.status_code) THEN unwrap(output.status_code) ELSE 0,
      output.stdout \o output.stderr>>

\* variant: standard error comes before standard output
batch_result_stderr_first(output) ==
    <<IF is_some(output.status_code) THEN unwrap(output.status_code) ELSE 1,
      output.stderr \o output.stdout>>

\* the end of the batch closure: output.stdout.extend(output.stderr);
\* code = output.status.code().unwrap_or(1)
batch_result(output) ==
    <<IF is_some(output.status_code) THEN unwrap(output.status_code) ELSE 1,
      output.stdout \o output.stderr>>

\* variant: the exit codes are added
RECURSIVE combine_add(_, _, _)
combine_add(results, combined_status, combined_output) ==
    IF results = <<>> THEN <<combined_status, combined_output>>
    ELSE combine_add(Tail(results),
                     combined_status + Head(results)[1],
                     combined_output \o Head(results)[2])

\* for (code, output) in results { combined_status |= code;
\* combined_output.extend(output) }
RECURSIVE combine(_, _, _)
combine(results, combined_status, combined_output) ==
    IF results = <<>> THEN <<combined_status, combined_output>>
    ELSE combine(Tail(results),
                 BitOr(combined_status, Head(results)[1]),
                 combined_output \o Head(results)[2])

RunInit ==
    /\ \E entry \in Entries :
        dHook = [ManifestHook("fmt", "docker_image", {}) EXCEPT !.entry = entry]
    /\ \E n \in 0..MaxBatches : dBatches = Batches(n)
    /\ dCmds = None
    /\ dLaunched = <<>>
    /\ dOutputs = <<>>
    /\ dOrder = <<>>
    /\ dResults = <<>>
    /\ dResult = None
    /\ dFailed = {}
    /\ dPc = "start"
    /\ MergeIdle /\ RepoIdle /\ HooksIdle /\ RunnerIdle

\* let cmds = shlex::split(&hook.entry).ok_or(...)?
SplitEntry ==
    /\ dPc = "start"
    /\ IF is_none(shlex_split(dHook.entry))
       THEN /\ dResult' = Some(Err([kind |-> "ParseEntry"]))
            /\ dPc' = "done"
            /\ UNCHANGED dCmds
       ELSE /\ dCmds' = shlex_split(dHook.entry)
            /\ dPc' = "batches"
            /\ UNCHANGED dResult
    /\ UNCHANGED <<dHook, dBatches, dLaunched, dOutputs, dOrder, dResults, dFailed,
                   mergeVars, repoVars, hooksVars, runnerVars>>

\* variant: the hook's args come before the entry tokens
command_line_args_first(cmds, hook, batch) ==
    docker_run_cmd
        \o (IF is_some(hook.args) THEN unwrap(hook.args) ELSE <<>>) \o cmds \o batch

\* the command line of batch b: docker run, the entry tokens, the hook's
\* args, the batch's filenames
command_line(cmds, hook, batch) ==
    docker_run_cmd \o cmds
        \o (IF is_some(hook.args) THEN unwrap(hook.args) ELSE <<>>) \o batch

\* run_by_batch invokes the closure on batch b and the process runs to its
\* end; the result is appended to run_by_batch's result list
RunBatch(b) ==
    /\ dPc = "batches"
    /\ b \notin DOMAIN dOutputs
    /\ \E output \in ProcessOutputs(b) :
        /\ dOutputs' = (b :> output) @@ dOutputs
        /\ dResults' = Append(dResults, batch_result(output))
    /\ dLaunched' = (b :> command_line(unwrap(dCmds), dHook, dBatches[b])) @@ dLaunched
    /\ dOrder' = Append(dOrder, b)
    /\ UNCHANGED <<dHook, dBatches, dCmds, dResult, dPc, dFailed,
                   mergeVars, repoVars, hooksVars, runnerVars>>

\* variant: a launch failure is recorded as a batch that ended with code 1
\* and no output
LaunchFails_folded(b) ==
    /\ dPc = "batches"
    /\ b \in DOMAIN dBatches
    /\ b \notin DOMAIN dOutputs
    /\ dFailed' = dFailed \cup {b}
    /\ dOutputs' = (b :> [status_code |-> None, stdout |-> <<>>, stderr |-> <<>>])
                        @@ dOutputs
    /\ dResults' = Append(dResults, <<1, <<>>>>)
    /\ dOrder' = Append(dOrder, b)
    /\ UNCHANGED <<dHook, dBatches, dCmds, dLaunched, dResult, dPc,
                   mergeVars, repoVars, hooksVars, runnerVars>>

\* the process of batch b cannot be launched: docker_run_cmd().await? or
\* cmd.output().await? fails, and run_by_batch(...).await? returns the error
LaunchFails(b) ==
    /\ dPc = "batches"
    /\ b \in DOMAIN dBatches
    /\ b \notin DOMAIN dOutputs
    /\ dFailed' = dFailed \cup {b}
    /\ dResult' = Some(Err([kind |-> "LaunchFailed"]))
    /\ dPc' = "done"
    /\ UNCHANGED <<dHook, dBatches, dCmds, dLaunched, dOutputs, dOrder, dResults,
                   mergeVars, repoVars, hooksVars, runnerVars>>

\* run_by_batch returned every batch's result; the results are combined
\* and Ok((combined_status, combined_output)) is returned
Combine ==
    /\ dPc = "batches"
    /\ DOMAIN dOutputs = DOMAIN dBatches
    /\ dResult' = Some(Ok(combine(dResults, 0, <<>>)))
    /\ dPc' = "done"
    /\ UNCHANGED <<dHook, dBatches, dCmds, dLaunched, dOutputs, dOrder, dResults,
                   dFailed, mergeVars, repoVars, hooksVars, runnerVars>>

RunNext ==
    \/ SplitEntry
    \/ \E b \in DOMAIN dBatches : RunBatch(b)
    \/ \E b \in DOMAIN dBatches : LaunchFails(b)
    \/ Combine

SpecRun == RunInit /\ [][RunNext]_vars

\* bit k of the non-negative integer n
Bit(n, k) == (n \div (2 ^ k)) % 2

\* the exit codes of the batches, in result order
BatchCodes == [k \in DOMAIN dResults |-> dResults[k][1]]

\* C9: the exit code returned by run is the bitwise OR of the batches'
\* exit codes, in whatever order the results were produced: a bit is set in
\* it exactly when it is set in some batch's code; one nonzero code among
\* zeros is returned as is; all-zero batches or no batches give 0.
C9_ExitCodeIsOr ==
    (dPc = "done" /\ dResult[1].ok) =>
        LET status == dResult[1].value[1]
        IN /\ status >= 0 /\ status < 2 ^ (MaxExitCode + 1)
           /\ \A k \in 0..MaxExitCode :
                Bit(status, k) = 1
                    <=> \E j \in DOMAIN BatchCodes : Bit(BatchCodes[j], k) = 1
           /\ \A j \in DOMAIN BatchCodes :
                (\A i \in DOMAIN BatchCodes \ {j} : BatchCodes[i] = 0)
                    => status = BatchCodes[j]
           /\ (\A j \in DOMAIN BatchCodes : BatchCodes[j] = 0) => status = 0

\* three batches ended with the codes 1, 2 and 1, in result order, and run
\* returned 3
C9_Witness ==
    /\ dPc = "done"
    /\ dResult[1].ok
    /\ Len(dResults) = 3
    /\ dResults[1][1] = 1 /\ dResults[2][1] = 2 /\ dResults[3][1] = 1
    /\ dResult[1].value[1] = 3

\* the stdout bytes then the stderr bytes of each batch, batches in the
\* order of run_by_batch's result list
RECURSIVE OutputInOrder(_)
OutputInOrder(order) ==
    IF order = <<>> THEN <<>>
    ELSE dOutputs[Head(order)].stdout \o dOutputs[Head(order)].stderr
            \o OutputInOrder(Tail(order))

\* C10: the output returned by run is the concatenation, over the batches
\* in the order of run_by_batch's result list, of each batch's stdout bytes
\* immediately followed by its stderr bytes; every batch appears once.
C10_OutputIsConcatenation ==
    (dPc = "done" /\ dResult[1].ok) =>
        /\ dResult[1].value[2] = OutputInOrder(dOrder)
        /\ Len(dOrder) = Len(dBatches)
        /\ \A b \in DOMAIN dBatches :
                Cardinality({k \in DOMAIN dOrder : dOrder[k] = b}) = 1

\* three batches, each with stdout and stderr bytes, whose results came in
\* the order 2, 3, 1
C10_Witness ==
    /\ dPc = "done"
    /\ dResult[1].ok
    /\ dOrder = <<2, 3, 1>>
    /\ dResult[1].value[2] = <<21, 22, 31, 32, 11, 12>>

\* C11: a batch whose process cannot be launched makes run return an error
\* and no (exit code, output) pair; a batch whose process started never
\* makes run return an error, whatever its exit code: run fails only on
\* tokenization or on a launch failure, and a successful run carries the
\* result of every batch, each nonzero code folded into the exit code.
C11_LaunchFailureIsError ==
    /\ dFailed # {} =>
            ( /\ dPc = "done"
              /\ ~dResult[1].ok
              /\ dResult[1].value = <<>> )
    /\ (dPc = "done" /\ ~dResult[1].ok) =>
            (dFailed # {} \/ shlex_split(dHook.entry) = <<>>)
    /\ (dPc = "done" /\ dResult[1].ok) =>
            ( /\ dFailed = {}
              /\ Len(dResults) = Len(dBatches)
              /\ \A k \in DOMAIN dOrder :
                    /\ dOutputs[dOrder[k]].status_code # <<>>
                        => dResults[k][1] = dOutputs[dOrder[k]].status_code[1]
                    /\ dResults[k][1] # 0 => dResult[1].value[1] # 0 )

\* a batch ended with exit code 2, then the process of another batch could
\* not be launched, and run returned an error
C11_Witness ==
    /\ dPc = "done"
    /\ ~dResult[1].ok
    /\ dFailed # {}
    /\ Len(dResults) >= 1
    /\ dResults[1][1] = 2
    /\ Len(dBatches) = 3

\* C16: the entry string is tokenized before any batch is dispatched: when
\* tokenization fails, run returns an error and no process is launched for
\* any batch; when it succeeds, the command line of every launched batch is
\* the container-invocation command, then the entry tokens, then the hook's
\* args, then the batch's filenames.
C16_TokenizedBeforeDispatch ==
    /\ shlex_split(dHook.entry) = <<>> =>
            ( /\ DOMAIN dLaunched = {}
              /\ DOMAIN dOutputs = {}
              /\ dFailed = {}
              /\ dPc = "done" =>
                    (~dResult[1].ok /\ dResult[1].error[1].kind = "ParseEntry") )
    /\ (DOMAIN dLaunched # {} \/ dFailed # {}) => dCmds # <<>>
    /\ \A b \in DOMAIN dLaunched :
            dLaunched[b]
                = docker_run_cmd \o <<"ruff", "check">> \o <<"--check">>
                    \o dBatches[b]

\* the entry was tokenized and three batches were launched, each with its
\* own filename after the entry tokens and the hook's args
C16_Witness ==
    /\ dPc = "done"
    /\ dResult[1].ok
    /\ DOMAIN dLaunched = {1, 2, 3}
    /\ dLaunched[2] = <<"docker", "run", "ruff", "check", "--check", "b.py">>


\* C19: a batch whose process started but ended without an exit code is
\* recorded with exit code 1; the exit code of a run that contains such a
\* batch is nonzero (its lowest bit is set), so the batch is never reported
\* as a success.
C19_NoExitCodeIsFailure ==
    /\ \A k \in DOMAIN dOrder :
            dOutputs[dOrder[k]].status_code = <<>> => dResults[k][1] = 1
    /\ (dPc = "done" /\ dResult[1].ok) =>
            ( (\E b \in DOMAIN dOutputs : dOutputs[b].status_code = <<>>)
                => ( /\ dResult[1].value[1] # 0
                     /\ dResult[1].value[1] % 2 = 1 ) )

\* three batches of which two exited with code 0 and one ended without an
\* exit code: run returned the exit code 1
C19_Witness ==
    /\ dPc = "done"
    /\ dResult[1].ok
    /\ Len(dBatches) = 3
    /\ Cardinality({b \in DOMAIN dOutputs : dOutputs[b].status_code = <<>>}) = 1
    /\ Cardinality({b \in DOMAIN dOutputs : dOutputs[b].status_code = <<0>>}) = 2
    /\ dResult[1].value[1] = 1


----------------------------------------------------------------------------
\* the runner binary

\* the words the runner's arguments are made of
Words == {"echo", "a", "b"}

\* Command::new("pre-commit").arg("run").arg("--all-files")
pre_commit_cmd == [program |-> "pre-commit", args |-> <<"run", "--all-files">>]

\* variant: every argument, the first included, is passed as an argument
wrapped_command_no_skip(cmd) == [program |-> cmd[1], args |-> cmd]

\* Command::new(cli.cmd.first().unwrap()) with cli.cmd.iter().skip(1) as
\* its arguments
wrapped_command(cmd) == [program |-> cmd[1], args |-> Tail(cmd)]

\* the state after RunnerCommand::parse(): cli.cmd holds the arguments
RunnerInit ==
    /\ nCmd \in SeqsUpTo(Words, MaxArgs)
    /\ nPreCommit = None
    /\ nLaunched = <<>>
    /\ nPc = "start"
    /\ MergeIdle /\ RepoIdle /\ HooksIdle /\ RunIdle

\* output() starts pre-commit run --all-files
RunPreCommit ==
    /\ nPc = "start"
    /\ nPreCommit' = Some([command |-> pre_commit_cmd, exited |-> FALSE,
                           status_code |-> None])
    /\ nPc' = "pre_commit"
    /\ UNCHANGED <<nCmd, nLaunched, mergeVars, repoVars, hooksVars, runVars>>

\* output() cannot start pre-commit: expect() panics
PreCommitFails ==
    /\ nPc = "start"
    /\ nPc' = "panicked"
    /\ UNCHANGED <<nCmd, nPreCommit, nLaunched,
                   mergeVars, repoVars, hooksVars, runVars>>

\* pre-commit ends, with any exit status or without one, and output()
\* returns
PreCommitExit ==
    /\ nPc = "pre_commit"
    /\ \E code \in {None} \cup {Some(c) : c \in 0..MaxExitCode} :
        nPreCommit' = Some([unwrap(nPreCommit) EXCEPT !.exited = TRUE,
                                                      !.status_code = code])
    /\ nPc' = "wrap"
    /\ UNCHANGED <<nCmd, nLaunched, mergeVars, repoVars, hooksVars, runVars>>

\* cli.cmd.first().unwrap() panics when no argument was given; otherwise
\* output() launches the wrapped command, or cannot and unwrap_or_else
\* panics
LaunchCommand ==
    /\ nPc = "wrap"
    /\ IF nCmd = <<>>
       THEN /\ nPc' = "panicked"
            /\ UNCHANGED nLaunched
       ELSE /\ nLaunched' = Append(nLaunched, wrapped_command(nCmd))
            /\ \E started \in BOOLEAN :
                nPc' = IF started THEN "wrapped" ELSE "panicked"
    /\ UNCHANGED <<nCmd, nPreCommit, mergeVars, repoVars, hooksVars, runVars>>

\* the wrapped command ends and main returns
CommandExit ==
    /\ nPc = "wrapped"
    /\ nPc' = "done"
    /\ UNCHANGED <<nCmd, nPreCommit, nLaunched,
                   mergeVars, repoVars, hooksVars, runVars>>

RunnerNext ==
    \/ RunPreCommit
    \/ PreCommitFails
    \/ PreCommitExit
    \/ LaunchCommand
    \/ CommandExit

SpecRunner == RunnerInit /\ [][RunnerNext]_vars

\* pre-commit was started by main
PreCommitStarted == nPreCommit # <<>>

\* every launch of the wrapped command happened after pre-commit had run
\* to completion, and there is at most one, with the first argument as the
\* program and the remaining arguments in order
LaunchedAfterPreCommit ==
    /\ Len(nLaunched) <= 1
    /\ nLaunched # <<>> =>
            ( /\ PreCommitStarted
              /\ nPreCommit[1].exited
              /\ nPreCommit[1].command
                    = [program |-> "pre-commit", args |-> <<"run", "--all-files">>]
              /\ nLaunched[1].program = nCmd[1]
              /\ nLaunched[1].args = SubSeq(nCmd, 2, Len(nCmd)) )
    /\ nPc \in {"start", "pre_commit"} => nLaunched = <<>>

\* C20 as stated: pre-commit runs to completion before the wrapped command
\* is launched; the wrapped command is launched whenever pre-commit could
\* be started, whatever pre-commit's exit status; it is launched at most
\* once, with the first argument as program and the rest in order.
C20_Original ==
    /\ LaunchedAfterPreCommit
    /\ (PreCommitStarted /\ nPc \in {"wrapped", "done", "panicked"})
            => Len(nLaunched) = 1

\* C20 (amended): as stated when at least one argument was given; when
\* none was given, main panics after pre-commit has run to completion and
\* launches nothing.
C20_WrappedAfterPreCommit ==
    /\ LaunchedAfterPreCommit
    /\ (PreCommitStarted /\ nPc \in {"wrapped", "done", "panicked"})
            => IF nCmd # <<>>
               THEN Len(nLaunched) = 1
               ELSE /\ nLaunched = <<>>
                    /\ nPc = "panicked"
                    /\ nPreCommit[1].exited

\* pre-commit exited with status 1 and the wrapped command echo a b was
\* then launched and ran to its end
C20_Witness ==
    /\ nPc = "done"
    /\ nCmd = <<"echo", "a", "b">>
    /\ nPreCommit[1].exited
    /\ nPreCommit[1].status_code = <<1>>
    /\ nLaunched = <<[program |-> "echo", args |-> <<"a", "b">>]>>


====
